---------------------------- MODULE Spec2Model ----------------------------
(***************************************************************************)
(* Model of the AiStockScout dashboard: the CSV line parser                *)
(* (services/geminiService.ts, parseStockCSV), the three service calls     *)
(* (scanMarketSector, fetchMarketSnapshot, analyzeStockWithGemini) and the *)
(* App component's handlers over DashboardState.                           *)
(*                                                                         *)
(* Conventions.                                                            *)
(*  - A JS string is a sequence of one-character strings.                  *)
(*  - A JS number is a record [nan, n, d]: NaN, or the decimal n / 10^d    *)
(*    with d = 0 or n not a multiple of 10 (so equal numbers are equal     *)
(*    records).                                                            *)
(*  - A value that may be null/undefined is a sequence of length <= 1:     *)
(*    <<>> is null/undefined and <<v>> is v.                               *)
(***************************************************************************)
EXTENDS Integers, Sequences, FiniteSets, TLC

VARIABLES
    apiKey,     \* geminiService.ts:4, TRUE iff process.env.API_KEY is non-empty
    state,      \* App: the DashboardState held by useState
    ops,        \* the async handler invocations suspended at an await
    last,       \* the handler step that produced the current state
    crashed,    \* a state updater threw while rendering: the root is unmounted
    csvText,    \* parseStockCSV: its argument
    parsed,     \* parseStockCSV: its return value
    parsePc,    \* parseStockCSV: "ready" before the call, "done" after
    searchQuery,    \* App: the text of the search input
    searchResults   \* App: the autocomplete suggestions

vars == <<apiKey, state, ops, last, crashed, csvText, parsed, parsePc, searchQuery, searchResults>>

---------------------------------------------------------------------------
(* JS values *)

Null == <<>>

Some(v) == <<v>>

NaN == [nan |-> TRUE, n |-> 0, d |-> 0]

RECURSIVE Normal(_, _)
Normal(n, d) ==
    IF n = 0 THEN [nan |-> FALSE, n |-> 0, d |-> 0]
    ELSE IF d > 0 /\ n % 10 = 0 THEN Normal(n \div 10, d - 1)
    ELSE [nan |-> FALSE, n |-> n, d |-> d]

RECURSIVE Pow10(_)
Pow10(k) == IF k <= 0 THEN 1 ELSE 10 * Pow10(k - 1)

\* The number n * 10^x / 10^d.
Num(n, d, x) ==
    IF x >= d THEN Normal(n * Pow10(x - d), 0) ELSE Normal(n, d - x)

Int2Num(i) == Normal(i, 0)

\* ToBoolean of a number: NaN and 0 are falsy.
NumTruthy(x) == ~x.nan /\ x.n # 0

---------------------------------------------------------------------------
(* JS string primitives used by parseStockCSV *)

WhiteSpace == {" ", "\t", "\r", "\n"}

Quotes == {"'", "\""}

Digits == {"0", "1", "2", "3", "4", "5", "6", "7", "8", "9"}

DigitVal(c) ==
    CASE c = "0" -> 0 [] c = "1" -> 1 [] c = "2" -> 2 [] c = "3" -> 3
      [] c = "4" -> 4 [] c = "5" -> 5 [] c = "6" -> 6 [] c = "7" -> 7
      [] c = "8" -> 8 [] c = "9" -> 9
      [] c \in {"a", "A"} -> 10 [] c \in {"b", "B"} -> 11
      [] c \in {"c", "C"} -> 12 [] c \in {"d", "D"} -> 13
      [] c \in {"e", "E"} -> 14 [] c \in {"f", "F"} -> 15

HexDigits == Digits \cup {"a", "b", "c", "d", "e", "f", "A", "B", "C", "D", "E", "F"}

Drop(s, k) == SubSeq(s, k + 1, Len(s))

Take(s, k) == SubSeq(s, 1, IF k < Len(s) THEN k ELSE Len(s))

\* String.prototype.includes for a one-character needle.
Includes(s, c) == \E i \in 1..Len(s) : s[i] = c

\* s.indexOf(c), 1-based, for a string that includes c.
IndexOf(s, c) ==
    CHOOSE j \in 1..Len(s) : s[j] = c /\ \A k \in 1..(j - 1) : s[k] # c

RECURSIVE Split(_, _)
SplitAt(s, i, sep) == <<SubSeq(s, 1, i - 1)>> \o Split(Drop(s, i), sep)

\* s.split(sep) for a one-character separator.
Split(s, sep) == IF ~Includes(s, sep) THEN <<s>> ELSE SplitAt(s, IndexOf(s, sep), sep)

RECURSIVE TrimStart(_)
TrimStart(s) ==
    IF s # <<>> /\ s[1] \in WhiteSpace THEN TrimStart(Tail(s)) ELSE s

RECURSIVE TrimEnd(_)
TrimEnd(s) ==
    IF s # <<>> /\ s[Len(s)] \in WhiteSpace
    THEN TrimEnd(SubSeq(s, 1, Len(s) - 1)) ELSE s

\* String.prototype.trim
Trim(s) == TrimEnd(TrimStart(s))

\* s.replace(/['"]/g, '')
StripQuotes(s) == SelectSeq(s, LAMBDA c : c \notin Quotes)

RECURSIVE DigitRun(_, _)
\* The length of the longest prefix of s made of characters of set.
DigitRun(s, set) ==
    IF s # <<>> /\ s[1] \in set THEN 1 + DigitRun(Tail(s), set) ELSE 0

RECURSIVE DigitsVal(_, _, _)
\* The value of the digit string s in the given radix, after acc.
DigitsVal(s, radix, acc) ==
    IF s = <<>> THEN acc
    ELSE DigitsVal(Tail(s), radix, acc * radix + DigitVal(s[1]))

HasSign(s) == s # <<>> /\ s[1] \in {"+", "-"}

SignOf(s) == IF s # <<>> /\ s[1] = "-" THEN -1 ELSE 1

\* The digits of v read in the given radix, with the sign sgn; NaN when v
\* starts with no digit of the radix.
IntOfDigits(sgn, v, set, radix) ==
    IF v = <<>> \/ v[1] \notin set THEN NaN
    ELSE Int2Num(sgn * DigitsVal(Take(v, DigitRun(v, set)), radix, 0))

\* parseInt after the white space and the sign: "0x"/"0X" selects radix 16.
IntOfUnsigned(sgn, u) ==
    IF Len(u) >= 2 /\ u[1] = "0" /\ u[2] \in {"x", "X"}
    THEN IntOfDigits(sgn, Drop(u, 2), HexDigits, 16)
    ELSE IntOfDigits(sgn, u, Digits, 10)

IntOfTrimmed(t) == IntOfUnsigned(SignOf(t), IF HasSign(t) THEN Tail(t) ELSE t)

\* parseInt(s) with no radix: leading white space, a sign, "0x"/"0X" for
\* radix 16, then the longest run of digits; NaN when there is none.
ParseInt(s) == IntOfTrimmed(TrimStart(s))

\* The exponent part e of a decimal literal ("e", a sign, digits), 0 when
\* it is not a complete exponent.
ExponentOfDigits(sgn, edig) ==
    IF edig = <<>> \/ edig[1] \notin Digits THEN 0
    ELSE sgn * DigitsVal(Take(edig, DigitRun(edig, Digits)), 10, 0)

ExponentOf(rest) ==
    IF rest = <<>> \/ rest[1] \notin {"e", "E"} THEN 0
    ELSE ExponentOfDigits(SignOf(Tail(rest)),
                          IF HasSign(Tail(rest)) THEN Tail(Tail(rest)) ELSE Tail(rest))

\* The decimal literal with integer digits int, fraction digits frac (after
\* a dot) and what follows them.
FloatOfParts(sgn, int, frac, rest) ==
    IF int = <<>> /\ frac = <<>> THEN NaN
    ELSE Num(sgn * DigitsVal(int \o frac, 10, 0), Len(frac), ExponentOf(rest))

\* after: what follows the integer digits.
FloatOfFraction(sgn, int, after) ==
    IF after # <<>> /\ after[1] = "."
    THEN FloatOfParts(sgn, int, Take(Tail(after), DigitRun(Tail(after), Digits)),
                      Drop(Tail(after), DigitRun(Tail(after), Digits)))
    ELSE FloatOfParts(sgn, int, <<>>, after)

FloatOfUnsigned(sgn, u) ==
    FloatOfFraction(sgn, Take(u, DigitRun(u, Digits)), Drop(u, DigitRun(u, Digits)))

FloatOfTrimmed(t) == FloatOfUnsigned(SignOf(t), IF HasSign(t) THEN Tail(t) ELSE t)

\* parseFloat(s): leading white space, then the longest prefix that is a
\* StrDecimalLiteral: a sign, digits with an optional fraction (or a
\* fraction alone), an optional exponent; NaN when there is none.  The
\* literal "Infinity" is not modelled: no input of the model holds an "I".
ParseFloat(s) == FloatOfTrimmed(TrimStart(s))

---------------------------------------------------------------------------
(* geminiService.ts: parseStockCSV *)

\* ToBoolean of parts[k] (0-based): undefined and '' are falsy.
PartTruthy(parts, k) == k + 1 <= Len(parts) /\ parts[k + 1] # <<>>

\* parts[k] (0-based), or '' where clean() is handed undefined.
Part(parts, k) == IF k + 1 <= Len(parts) THEN parts[k + 1] ELSE <<>>

\* clean() with the replace of the quote characters left out.
cleanKeepsQuotes(s) == Trim(s)

\* const clean = (s) => s ? s.replace(/['"]/g, '').trim() : ''
clean(s) == Trim(StripQuotes(s))

\* The object pushed for one accepted line.
\* isNaN(change) ? 0 : change
ZeroIfNaN(x) == IF x.nan THEN Int2Num(0) ELSE x

\* StockOfParts reading the score without testing that parts[6] is there.
StockOfPartsScoreAlways(parts) ==
    [symbol        |-> clean(Part(parts, 0)),
     name          |-> clean(Part(parts, 1)),
     sector        |-> clean(Part(parts, 2)),
     price         |-> ParseFloat(clean(Part(parts, 3))),
     changePercent |-> ZeroIfNaN(ParseFloat(clean(Part(parts, 4)))),
     marketCap     |-> clean(Part(parts, 5)),
     score         |-> ParseInt(clean(Part(parts, 6))),
     reason        |-> IF PartTruthy(parts, 7)
                       THEN Some(clean(Part(parts, 7)))
                       ELSE IF PartTruthy(parts, 6) /\ ParseInt(Part(parts, 6)).nan
                            THEN Some(clean(Part(parts, 6)))
                            ELSE Null]

StockOfParts(parts) ==
    [symbol        |-> clean(Part(parts, 0)),
     name          |-> clean(Part(parts, 1)),
     sector        |-> clean(Part(parts, 2)),
     price         |-> ParseFloat(clean(Part(parts, 3))),
     changePercent |-> ZeroIfNaN(ParseFloat(clean(Part(parts, 4)))),
     marketCap     |-> clean(Part(parts, 5)),
     score         |-> IF PartTruthy(parts, 6)
                       THEN ParseInt(clean(Part(parts, 6)))
                       ELSE Int2Num(0),
     reason        |-> IF PartTruthy(parts, 7)
                       THEN Some(clean(Part(parts, 7)))
                       ELSE IF PartTruthy(parts, 6) /\ ParseInt(Part(parts, 6)).nan
                            THEN Some(clean(Part(parts, 6)))
                            ELSE Null]

\* The body of the for loop: what one retained line adds to stocks.
\* The body of the loop once the line is split.
ParseParts(parts) ==
    IF Len(parts) >= 6 /\ ~ParseFloat(clean(Part(parts, 3))).nan
    THEN <<StockOfParts(parts)>>
    ELSE <<>>

ParseLine(line) == ParseParts(Split(line, ","))

\* The loop leaving at the first line it rejects (break for skip).
ParseLinesBreak(lines) ==
    IF lines = <<>> \/ ParseLine(Head(lines)) = <<>> THEN <<>>
    ELSE ParseLine(Head(lines))

RECURSIVE ParseLines(_)
ParseLines(lines) ==
    IF lines = <<>> THEN <<>>
    ELSE ParseLine(Head(lines)) \o ParseLines(Tail(lines))

parseStockCSV(text) ==
    ParseLines(SelectSeq(Split(text, "\n"), LAMBDA line : Includes(line, ",")))

---------------------------------------------------------------------------
(* The response texts handed to parseStockCSV (response.text || '') *)

RECURSIVE Join(_, _)
\* The strings of strs with sep between them (what Split undoes).
Join(strs, sep) ==
    IF strs = <<>> THEN <<>>
    ELSE IF Len(strs) = 1 THEN strs[1]
    ELSE strs[1] \o <<sep>> \o Join(Tail(strs), sep)

\* At most this many lines in a multi-line response text.
MaxLines == 3

SymbolFields == { <<"X">>, <<" ", "\"", "X", "\"", " ">> }

NameField == <<"Y", " ", "'", "C", "o", "'">>

SectorField == <<"Z">>

PriceFields ==
    { <<"1", "0", ".", "5">>, <<"N", "A">>, <<"\"", "7", "\"">>, <<>>,
      <<"2", "e", "1">> }

ChangeFields == { <<"1", ".", "2">>, <<"-", "0", ".", "5", "%">>, <<"u", "p">> }

CapField == <<"1", "T">>

\* The fields that follow MARKET_CAP: none, a score, a reason, both, more.
TailFields ==
    { <<>>,
      << <<>> >>,
      << <<" ">> >>,
      << <<"8", "7">> >>,
      << <<"\"", "8", "7", "\"">> >>,
      << <<"9", "x">> >>,
      << <<"G", "o", "o", "d", " ", "p", "i", "c", "k">> >>,
      << <<"8", "7">>, <<"S", "t", "r", "o", "n", "g">> >>,
      << <<"8", "7">>, <<>> >>,
      << <<"G", "o", "o", "d">>, <<>> >>,
      << <<"G", "o", "o", "d">>, <<" ", "S", "t", "r", "o", "n", "g">> >>,
      << <<>>, <<"S", "t", "r", "o", "n", "g">> >>,
      << <<"8", "7">>, <<"S", "t", "r", "o", "n", "g">>, <<"m", "o", "r", "e">> >> }

\* Lines of six or more fields.
LongLines ==
    { Join(<<sym, NameField, SectorField, price, change, CapField>> \o tl, ",") :
        sym \in SymbolFields, price \in PriceFields,
        change \in ChangeFields, tl \in TailFields }

\* Lines the parser must drop: no separator, or fewer than six fields.
ShortLines ==
    { <<>>,
      <<"H", "e", "r", "e", ":">>,
      <<",">>,
      Join(<< <<"X">>, NameField, SectorField, <<"1", "0", ".", "5">>, <<"1", ".", "2">> >>, ","),
      Join(<< <<"X">>, <<"9">> >>, ",") }

\* The lines multi-line texts are made of.
TextLines ==
    { Join(<< <<"A">>, <<"a">>, <<"F">>, <<"5">>, <<"1">>, <<"1", "T">>, <<"9", "0">>, <<"o", "k">> >>, ","),
      Join(<< <<"B">>, <<"b">>, <<"F">>, <<"7">>, <<"2">>, <<"2", "T">> >>, ","),
      Join(<< <<"A">>, <<"c">>, <<"G">>, <<"x">>, <<"2">>, <<"2", "T">>, <<"5">> >>, ","),
      Join(<< <<"X">>, <<"9">> >>, ","),
      <<"#", "#", "#">>,
      <<>> }

InputTexts ==
    LongLines \cup ShortLines \cup
    { Join(ls, "\n") : ls \in UNION { [1..n -> TextLines] : n \in 2..MaxLines } }

---------------------------------------------------------------------------
(* The dashboard: constants of the state machine *)

\* App: useState's initial DashboardState.
InitialState ==
    [stocks        |-> <<>>,
     selectedStock |-> Null,
     analysis      |-> Null,
     loading       |-> TRUE,
     view          |-> "dashboard",
     scanMode      |-> FALSE,
     progress      |-> 0,
     scanStatus    |-> ""]

NoOps == <<>>

NoLast == [ev |-> "none"]

---------------------------------------------------------------------------
(* The parser run on its own: one call of parseStockCSV on an input text *)

ParseInit ==
    /\ csvText \in InputTexts
    /\ parsed = <<>>
    /\ parsePc = "ready"
    /\ searchQuery = <<>>
    /\ searchResults = <<>>
    /\ apiKey = TRUE
    /\ state = InitialState
    /\ ops = NoOps
    /\ last = NoLast
    /\ crashed = FALSE

ParseCall ==
    /\ parsePc = "ready"
    /\ parsed' = parseStockCSV(csvText)
    /\ parsePc' = "done"
    /\ UNCHANGED <<apiKey, state, ops, last, crashed, csvText, searchQuery, searchResults>>

ParseNext == ParseCall

SpecParse == ParseInit /\ [][ParseNext]_vars

---------------------------------------------------------------------------
(* The external service: what generateContent can answer *)

\* handleScanForValue: const sectors = [...]
sectors ==
    <<"Financial Services & Banking",
      "IT & Technology",
      "Automobile & Consumer Goods",
      "Energy, Power & Infrastructure",
      "Pharma & Healthcare">>

SectorTags == <<"F", "T", "A", "E", "P">>

SectorDigits == <<"5", "6", "7", "8", "9">>

\* One CSV line of a scan answer; tl holds the fields after MARKET_CAP.
PickLine(sym, price, tl) ==
    Join(<<sym, sym, <<"S">>, price, <<"1">>, <<"1", "T">> >> \o tl, ",")

\* A scan answer for sector k (1-based): five picks.  Their scores are 90,
\* none (the 7th field is a reason), 50..90 by sector, 50 and none (six
\* fields); the last pick of sector 4 repeats the first symbol of sector 1.
SectorText(k) ==
    LET t == SectorTags[k]
    IN  Join(<< PickLine(<<t, "1">>, <<"4">>, << <<"9", "0">>, <<"o", "k">> >>),
                PickLine(<<t, "2">>, <<"0">>, << <<"G", "o", "o", "d">> >>),
                PickLine(<<t, "3">>, <<"3">>, << <<SectorDigits[k], "0">> >>),
                PickLine(<<t, "4">>, <<"2">>, << <<"5", "0">>, <<>> >>),
                PickLine(IF k = 4 THEN <<"F", "1">> ELSE <<t, "5">>, <<"1">>, <<>>) >>,
             "\n")

\* The calls for the first FailingSectors sectors may fail.
FailingSectors == 2

\* What a scanMarketSector call for sector k can get back: a text, or an
\* error.
SectorResponses(k) ==
    { [ok |-> TRUE, text |-> SectorText(k)] }
    \cup (IF k <= FailingSectors THEN { [ok |-> FALSE] } ELSE {})

SnapshotText ==
    Join(<< Join(<< <<"T", "C", "S">>, <<"T", "a", "t", "a">>, <<"I", "T">>,
                    <<"5">>, <<"1", ".", "2">>, <<"1", "T">> >>, ","),
            Join(<< <<"I", "T", "C">>, <<"I", "T", "C">>, <<"F", "M", "C", "G">>,
                    <<"0">>, <<"-", "1">>, <<"5", "T">> >>, ",") >>,
         "\n")

\* What a fetchMarketSnapshot call can get back.
SnapshotResponses == { [ok |-> FALSE], [ok |-> TRUE, text |-> SnapshotText] }

\* The tickers of NIFTY_200_TICKERS the model's user picks from the search box.
SearchTickers == { <<"T", "C", "S">> }

\* What the gather call (analyzeStockWithGemini, step 1) can get back: an
\* error; an answer with no text and no grounding metadata; an answer with
\* text and three grounding chunks (one without web, one web without title).
GatherResponses ==
    { [ok |-> FALSE],
      [ok |-> TRUE, text |-> "", chunks |-> Null],
      [ok |-> TRUE, text |-> "TCS trades at 9",
       chunks |-> Some(<< [web |-> Some([title |-> "News", uri |-> "http://n"])],
                          [web |-> Null],
                          [web |-> Some([title |-> "", uri |-> "http://m"])] >>)] }

\* The parsed JSON objects of the extract call.  A field the object lacks is
\* Null; rest says whether intrinsicValue, marginOfSafety, sentimentScore,
\* sentimentSummary, sectorMomentum, strengths and risks are all there.
AnalysisObject(name, price, rec, label, method, rest) ==
    [companyName      |-> name,
     currentPrice     |-> price,
     recommendation   |-> rec,
     sentimentLabel   |-> label,
     valuationMetrics |-> method,
     rest             |-> rest,
     sources          |-> Null]

\* The first object carries a sources field of its own, which the schema
\* does not ask for and JSON.parse accepts.
ExtractObjects ==
    { [AnalysisObject(Some(<<"T", "a", "t", "a">>), Some(Int2Num(9)), Some("BUY"),
                      Some("Positive"), Some(<<"Discounted Cash Flow">>), TRUE)
         EXCEPT !.sources = Some(<< [title |-> "Own", uri |-> "http://x"] >>)],
      AnalysisObject(Some(<<>>), Some(Int2Num(0)), Some("HOLD"),
                     Some("Neutral"), Some(<<"Graham Number">>), TRUE),
      AnalysisObject(Some(<<"T", "a", "t", "a">>), Some(Int2Num(9)), Some("SELL"),
                     Null, Some(<<"Relative Valuation">>), TRUE),
      AnalysisObject(Some(<<"T", "a", "t", "a">>), Some(Int2Num(9)), Some("STRONG BUY"),
                     Some("Positive"), Some(<<"Discounted Cash Flow">>), TRUE),
      AnalysisObject(Some(<<"T", "a", "t", "a">>), Null, Some("BUY"),
                     Some("Positive"), Null, FALSE) }

\* What the extract call (step 2) can get back: an error, an answer with
\* no text, a text that is not JSON, the JSON text null, a JSON object.
ExtractResponses ==
    { [ok |-> FALSE],
      [ok |-> TRUE, text |-> Null],
      [ok |-> TRUE, text |-> Some([json |-> FALSE])],
      [ok |-> TRUE, text |-> Some([json |-> TRUE, value |-> Null])] }
    \cup { [ok |-> TRUE, text |-> Some([json |-> TRUE, value |-> Some(obj)])] :
             obj \in ExtractObjects }

---------------------------------------------------------------------------
(* geminiService.ts: the three service functions, as functions of the     *)
(* answer the service gives                                                *)

\* The answer of a call that was never issued (if (!apiKey) return []).
NoCall == [ok |-> FALSE]

\* Every text the service answers a scan or a snapshot query with.
AnswerTexts == {SnapshotText} \cup { SectorText(k) : k \in 1..Len(sectors) }

\* parseStockCSV(response.text || '') on each of those texts, computed once.
ParsedAnswer == [text \in AnswerTexts |-> parseStockCSV(text)]

\* scanMarketSector whose catch answers with the rows of the snapshot.
scanMarketSectorFallback(key, resp) ==
    IF ~key THEN <<>> ELSE IF resp.ok THEN ParsedAnswer[resp.text]
    ELSE ParsedAnswer[SnapshotText]

\* scanMarketSector: [] without a key; parseStockCSV(response.text || '')
\* after the await; [] from the catch.
scanMarketSector(key, resp) ==
    IF ~key THEN <<>> ELSE IF resp.ok THEN ParsedAnswer[resp.text] ELSE <<>>

\* fetchMarketSnapshot, likewise.
fetchMarketSnapshot(key, resp) ==
    IF ~key THEN <<>> ELSE IF resp.ok THEN ParsedAnswer[resp.text] ELSE <<>>

\* chunks.map(c => c.web).filter(web => !!web)
\*       .map(web => ({ title: web.title || 'Source', uri: web.uri || '#' }))
SourcesOf(chunks) ==
    LET webs == SelectSeq(chunks, LAMBDA c : c.web # Null)
    IN  [k \in 1..Len(webs) |->
            [title |-> IF webs[k].web[1].title # "" THEN webs[k].web[1].title ELSE "Source",
             uri   |-> IF webs[k].web[1].uri # "" THEN webs[k].web[1].uri ELSE "#"]]

SearchUnavailable == "Search unavailable. Use internal knowledge base."

NoSearchData == "No specific search data found."

\* The catch of step 1 leaving searchContext as initialised ("").
GatherResultNoPlaceholder(resp) ==
    IF resp.ok
    THEN [searchContext |-> IF resp.text # "" THEN resp.text ELSE NoSearchData,
          sources       |-> IF resp.chunks = Null THEN <<>> ELSE SourcesOf(resp.chunks[1])]
    ELSE [searchContext |-> "", sources |-> <<>>]

\* analyzeStockWithGemini, step 1 after its await: searchContext and sources.
GatherResult(resp) ==
    IF resp.ok
    THEN [searchContext |-> IF resp.text # "" THEN resp.text ELSE NoSearchData,
          sources       |-> IF resp.chunks = Null THEN <<>> ELSE SourcesOf(resp.chunks[1])]
    ELSE [searchContext |-> SearchUnavailable, sources |-> <<>>]

\* analyzeStockWithGemini, step 2 after its await: whether the try block
\* throws.  It throws when the call fails, when response.text is empty,
\* when JSON.parse throws, and when the parsed value is null (the
\* assignment to analysis.sources throws).
ExtractThrows(resp) ==
    IF ~resp.ok THEN TRUE
    ELSE IF resp.text = Null THEN TRUE
    ELSE IF ~resp.text[1].json THEN TRUE
    ELSE resp.text[1].value = Null

\* Step 2 keeping the sources of the parsed object when it has any.
ExtractResultKeepsOwn(resp, sources) ==
    IF resp.text[1].value[1].sources # Null
    THEN resp.text[1].value[1]
    ELSE [resp.text[1].value[1] EXCEPT !.sources = Some(sources)]

\* The StockAnalysis returned when step 2 does not throw.
ExtractResult(resp, sources) ==
    [resp.text[1].value[1] EXCEPT !.sources = Some(sources)]

---------------------------------------------------------------------------
(* App: helpers of the handlers *)

\* A behaviour starts at most this many async handler invocations, the
\* mount effect's loadMarketData being the first.
MaxOps == 3

\* The user clicks one of the first MaxRow rows of the table.
MaxRow == 2

\* allPicks.slice(0, 20)
TopN == 20

\* The longer behaviours of SpecLong start at most this many invocations.
MaxOpsLong == 4

\* The invocations a behaviour can start.
OpIds == DOMAIN ops

\* An invocation not started yet, and one that has returned.
NewOp == [pc |-> "new"]

DoneOp == [pc |-> "done"]

InFlight == { o \in OpIds : ops[o].pc \notin {"new", "done"} }

\* The next invocation is the first one not started yet.
FreeSlot == CHOOSE o \in OpIds : ops[o].pc = "new" /\ \A q \in 1..(o - 1) : ops[q].pc # "new"

\* An await on a promise that is already settled (no service call was
\* issued) resumes in a microtask: no event handler runs before it.
MicrotaskPending == \E o \in InFlight : ~ops[o].ext

\* The user can act: the root is mounted and no microtask is pending.
UserCanAct == ~crashed /\ ~MicrotaskPending

CanStart == UserCanAct /\ \E o \in OpIds : ops[o].pc = "new"

\* setState on an unmounted root changes nothing.
Commit(new) == IF crashed THEN state ELSE new

Event(e) == IF crashed THEN [ev |-> "unmounted"] ELSE e

\* The third branch of <main>: neither the spinner of the detail view nor
\* the AnalysisView is rendered, so the dashboard content is.
DashboardShown ==
    /\ ~(state.loading /\ state.view = "detail")
    /\ ~(state.view = "detail" /\ state.selectedStock # Null /\ state.analysis # Null)

\* The table rows are rendered (not isLoadingList, stocks not empty).
RowsShown ==
    /\ DashboardShown
    /\ ~(state.loading /\ state.view = "dashboard")
    /\ state.stocks # <<>>

\* Math.round(num / den) for num >= 0, den > 0.
Round(num, den) == (2 * num + den) \div (2 * den)

\* (x.score || 0)
ScoreOrZero(x) == IF NumTruthy(x.score) THEN x.score.n ELSE 0

RECURSIVE InsertBeforeTies(_, _)
\* InsertByScore putting x in front of the elements that compare equal.
InsertBeforeTies(s, x) ==
    IF s = <<>> THEN <<x>>
    ELSE IF ScoreOrZero(Head(s)) > ScoreOrZero(x)
         THEN <<Head(s)>> \o InsertBeforeTies(Tail(s), x)
         ELSE <<x>> \o s

RECURSIVE InsertByScore(_, _)
\* x put into the sorted list s behind every element that does not compare
\* after it: (b.score || 0) - (a.score || 0) <= 0.
InsertByScore(s, x) ==
    IF s = <<>> THEN <<x>>
    ELSE IF ScoreOrZero(Head(s)) >= ScoreOrZero(x)
         THEN <<Head(s)>> \o InsertByScore(Tail(s), x)
         ELSE <<x>> \o s

RECURSIVE SortFrom(_, _)
SortFrom(done, todo) ==
    IF todo = <<>> THEN done
    ELSE SortFrom(InsertByScore(done, Head(todo)), Tail(todo))

\* allPicks.sort((a, b) => (b.score || 0) - (a.score || 0)).slice(0, 20);
\* Array.prototype.sort is stable.
TopPicks(allPicks) == Take(SortFrom(<<>>, allPicks), TopN)

\* Math.round((i / sectors.length) * 100) with the index taken 1-based.
ProgressOffByOne(i) == Round((i + 1) * 100, Len(sectors))

\* Math.round((i / sectors.length) * 100)
ProgressOf(i) == Round(i * 100, Len(sectors))

\* The success updater marking every sector as analysed.
ReconciledStockAlwaysAnalysed(prevSel, analysis, price) ==
    [prevSel EXCEPT
        !.price  = IF analysis.currentPrice # Null /\ NumTruthy(analysis.currentPrice[1])
                   THEN analysis.currentPrice[1]
                   ELSE IF NumTruthy(price) THEN price ELSE prevSel.price,
        !.name   = IF analysis.companyName # Null /\ analysis.companyName[1] # <<>>
                   THEN analysis.companyName[1] ELSE prevSel.name,
        !.sector = <<"A", "n", "a", "l", "y", "s", "e", "d">>]

\* The selectedStock committed by analyzeStock's success updater.
ReconciledStock(prevSel, analysis, price) ==
    [prevSel EXCEPT
        !.price  = IF analysis.currentPrice # Null /\ NumTruthy(analysis.currentPrice[1])
                   THEN analysis.currentPrice[1]
                   ELSE IF NumTruthy(price) THEN price ELSE prevSel.price,
        !.name   = IF analysis.companyName # Null /\ analysis.companyName[1] # <<>>
                   THEN analysis.companyName[1] ELSE prevSel.name,
        !.sector = IF prevSel.sector = <<"U", "n", "k", "n", "o", "w", "n">>
                   THEN <<"A", "n", "a", "l", "y", "s", "e", "d">> ELSE prevSel.sector]

\* handleSearchSelect: const tempStock = { symbol: ticker, name: ticker, ... }
TempStock(ticker) ==
    [symbol        |-> ticker,
     name          |-> ticker,
     sector        |-> <<"U", "n", "k", "n", "o", "w", "n">>,
     price         |-> Int2Num(0),
     changePercent |-> Int2Num(0),
     marketCap     |-> <<>>]

---------------------------------------------------------------------------
(* App: the handlers.  Each action is one run of a handler from the event *)
(* (or the resumption of an await) to its next await or its end.           *)

\* useState's initial value, then the mount effect's call of loadMarketData
\* up to its await.
InitWith(n) ==
    /\ apiKey \in BOOLEAN
    /\ state = [InitialState EXCEPT !.loading = TRUE, !.scanMode = FALSE,
                                    !.progress = 0,
                                    !.scanStatus = "Fetching Snapshot..."]
    /\ ops = [o \in 1..n |->
                IF o = 1 THEN [pc |-> "fetchMarketSnapshot", ext |-> apiKey]
                ELSE NewOp]
    /\ last = [ev |-> "loadMarketData", id |-> 1]
    /\ crashed = FALSE
    /\ csvText = <<>>
    /\ parsed = <<>>
    /\ parsePc = "ready"
    /\ searchQuery = <<>>
    /\ searchResults = <<>>

Init == InitWith(MaxOps)

\* The same start, for behaviours of up to MaxOpsLong invocations.
InitLong == InitWith(MaxOpsLong)

\* The refresh button (rendered on the dashboard view, never disabled).
loadMarketData ==
    /\ CanStart
    /\ state.view = "dashboard"
    /\ state' = [state EXCEPT !.loading = TRUE, !.scanMode = FALSE,
                              !.progress = 0,
                              !.scanStatus = "Fetching Snapshot..."]
    /\ ops' = [ops EXCEPT ![FreeSlot] = [pc |-> "fetchMarketSnapshot", ext |-> apiKey]]
    /\ last' = [ev |-> "loadMarketData", id |-> FreeSlot]
    /\ UNCHANGED <<apiKey, crashed, csvText, parsed, parsePc, searchQuery, searchResults>>

\* loadMarketData after await fetchMarketSnapshot().  fetchMarketSnapshot
\* never throws, so the catch of loadMarketData is not taken.
SnapshotReturn(o) ==
    /\ ops[o].pc = "fetchMarketSnapshot"
    /\ \E resp \in (IF ops[o].ext THEN SnapshotResponses ELSE {NoCall}) :
          LET stocks == fetchMarketSnapshot(apiKey, resp)
          IN  /\ state' = Commit([state EXCEPT !.stocks = stocks, !.loading = FALSE])
              /\ last' = Event([ev |-> "snapshotDone", id |-> o, stocks |-> stocks])
    /\ ops' = [ops EXCEPT ![o] = DoneOp]
    /\ UNCHANGED <<apiKey, crashed, csvText, parsed, parsePc, searchQuery, searchResults>>

\* The scan button (disabled={state.loading}): the reset, then the first
\* round of the loop up to await scanMarketSector(sectors[0]).
handleScanForValue ==
    /\ CanStart
    /\ DashboardShown
    /\ ~state.loading
    /\ state' = [state EXCEPT !.loading = TRUE, !.scanMode = TRUE,
                              !.stocks = <<>>,
                              !.progress = ProgressOf(0),
                              !.scanStatus = "Analyzing " \o sectors[1] \o "..."]
    /\ ops' = [ops EXCEPT ![FreeSlot] =
                 [pc |-> "scanMarketSector", ext |-> apiKey, i |-> 0,
                  allPicks |-> <<>>, returned |-> <<>>, log |-> <<ProgressOf(0)>>]]
    /\ last' = [ev |-> "scanStart", id |-> FreeSlot]
    /\ UNCHANGED <<apiKey, crashed, csvText, parsed, parsePc, searchQuery, searchResults>>

\* The loop showing the picks gathered so far at each round.
ScanSectorReturnPublishes(o) ==
    /\ ops[o].pc = "scanMarketSector"
    /\ ops[o].i + 1 < Len(sectors)
    /\ \E resp \in (IF ops[o].ext THEN SectorResponses(ops[o].i + 1) ELSE {NoCall}) :
          LET picks == scanMarketSector(apiKey, resp)
              i     == ops[o].i + 1
          IN  /\ ops' = [ops EXCEPT ![o] =
                           [@ EXCEPT !.i = i,
                                     !.allPicks = @ \o picks,
                                     !.returned = Append(@, picks),
                                     !.log = Append(@, ProgressOf(i))]]
              /\ state' = Commit([state EXCEPT
                                    !.stocks = ops[o].allPicks \o picks,
                                    !.progress = ProgressOf(i),
                                    !.scanStatus = "Analyzing " \o sectors[i + 1] \o "..."])
              /\ last' = Event([ev |-> "scanSector", id |-> o, ok |-> resp.ok])
    /\ UNCHANGED <<apiKey, crashed, csvText, parsed, parsePc, searchQuery, searchResults>>

\* The loop after await scanMarketSector(sectors[i]), i not the last: the
\* append, then the next round up to its await.  returned and log keep what
\* this invocation got back and which progress values it set.
ScanSectorReturn(o) ==
    /\ ops[o].pc = "scanMarketSector"
    /\ ops[o].i + 1 < Len(sectors)
    /\ \E resp \in (IF ops[o].ext THEN SectorResponses(ops[o].i + 1) ELSE {NoCall}) :
          LET picks == scanMarketSector(apiKey, resp)
              i     == ops[o].i + 1
          IN  /\ ops' = [ops EXCEPT ![o] =
                           [@ EXCEPT !.i = i,
                                     !.allPicks = @ \o picks,
                                     !.returned = Append(@, picks),
                                     !.log = Append(@, ProgressOf(i))]]
              /\ state' = Commit([state EXCEPT
                                    !.progress = ProgressOf(i),
                                    !.scanStatus = "Analyzing " \o sectors[i + 1] \o "..."])
              /\ last' = Event([ev |-> "scanSector", id |-> o, ok |-> resp.ok])
    /\ UNCHANGED <<apiKey, crashed, csvText, parsed, parsePc, searchQuery, searchResults>>

\* The loop after the last await: the append, the sort, the slice and the
\* final setState.  Nothing in the try block throws (scanMarketSector
\* catches its own errors), so the catch of handleScanForValue is not taken.
ScanCommit(o) ==
    /\ ops[o].pc = "scanMarketSector"
    /\ ops[o].i + 1 = Len(sectors)
    /\ \E resp \in (IF ops[o].ext THEN SectorResponses(ops[o].i + 1) ELSE {NoCall}) :
          LET picks    == scanMarketSector(apiKey, resp)
              allPicks == ops[o].allPicks \o picks
          IN  /\ state' = Commit([state EXCEPT !.stocks = TopPicks(allPicks),
                                               !.loading = FALSE,
                                               !.progress = 100,
                                               !.scanStatus = "Scan Complete"])
              /\ last' = Event([ev |-> "scanCommit", id |-> o, ok |-> resp.ok,
                                returned |-> Append(ops[o].returned, picks),
                                log |-> ops[o].log])
    /\ ops' = [ops EXCEPT ![o] = DoneOp]
    /\ UNCHANGED <<apiKey, crashed, csvText, parsed, parsePc, searchQuery, searchResults>>

\* StartAnalysis without the test of the key in analyzeStockWithGemini.
StartAnalysisNoKeyCheck(stock, how) ==
    /\ state' = [state EXCEPT !.selectedStock = Some(stock),
                              !.loading = TRUE, !.view = "detail"]
    /\ ops' = [ops EXCEPT ![FreeSlot] =
                 [pc |-> "gather", ext |-> TRUE, symbol |-> stock.symbol,
                  price |-> stock.price, sector |-> stock.sector,
                  searchContext |-> "", sources |-> <<>>]]
    /\ last' = [ev |-> how, id |-> FreeSlot]
    /\ UNCHANGED <<apiKey, crashed, csvText, parsed, parsePc, searchQuery, searchResults>>

\* handleStockClick / handleSearchSelect: setState(selectedStock), then
\* analyzeStock up to the first await of analyzeStockWithGemini.  Without a
\* key analyzeStockWithGemini throws at once and the catch runs before any
\* other handler.
StartAnalysis(stock, how) ==
    /\ IF apiKey
       THEN /\ state' = [state EXCEPT !.selectedStock = Some(stock),
                                      !.loading = TRUE, !.view = "detail"]
            /\ ops' = [ops EXCEPT ![FreeSlot] =
                         [pc |-> "gather", ext |-> TRUE, symbol |-> stock.symbol,
                          price |-> stock.price, sector |-> stock.sector,
                          searchContext |-> "", sources |-> <<>>]]
            /\ last' = [ev |-> how, id |-> FreeSlot]
       ELSE /\ state' = [state EXCEPT !.selectedStock = Some(stock),
                                      !.loading = FALSE, !.view = "dashboard"]
            /\ ops' = ops
            /\ last' = [ev |-> "analyzeFail", id |-> 0, phase |-> "credential"]
    /\ UNCHANGED <<apiKey, crashed, csvText, parsed, parsePc, searchQuery, searchResults>>

\* A click on a table row.
handleStockClick ==
    /\ CanStart
    /\ RowsShown
    /\ \E row \in 1..(IF Len(state.stocks) < MaxRow THEN Len(state.stocks) ELSE MaxRow) :
          StartAnalysis(state.stocks[row], "handleStockClick")

\* A click on a search suggestion (the search bar is rendered on the
\* dashboard view, whatever loading is).  setSearchQuery('') and
\* setSearchResults([]) leave the search box as it is here, empty: the
\* typing is followed under SpecSearch.
handleSearchSelect ==
    /\ CanStart
    /\ state.view = "dashboard"
    /\ \E ticker \in SearchTickers :
          StartAnalysis(TempStock(ticker), "handleSearchSelect")

\* analyzeStockWithGemini after the await of step 1, up to the await of
\* step 2.
GatherReturn(o) ==
    /\ ops[o].pc = "gather"
    /\ \E resp \in GatherResponses :
          LET r == GatherResult(resp)
          IN  /\ ops' = [ops EXCEPT ![o] =
                           [@ EXCEPT !.pc = "extract",
                                     !.searchContext = r.searchContext,
                                     !.sources = r.sources]]
              /\ last' = Event([ev |-> IF resp.ok THEN "gatherOk" ELSE "gatherFail",
                                id |-> o])
    /\ UNCHANGED <<apiKey, state, crashed, csvText, parsed, parsePc, searchQuery, searchResults>>

\* Step 2 throws: analyzeStock's catch.
AnalyzeFail(o) ==
    /\ ops[o].pc = "extract"
    /\ \E resp \in ExtractResponses :
          /\ ExtractThrows(resp)
          /\ last' = Event([ev |-> "analyzeFail", id |-> o, phase |-> "extract",
                            op |-> ops[o], resp |-> resp])
    /\ state' = Commit([state EXCEPT !.loading = FALSE, !.view = "dashboard"])
    /\ ops' = [ops EXCEPT ![o] = DoneOp]
    /\ UNCHANGED <<apiKey, crashed, csvText, parsed, parsePc, searchQuery, searchResults>>

\* Step 2 returns and the success updater runs on a selectedStock.
AnalyzeCommit(o) ==
    /\ ops[o].pc = "extract"
    /\ crashed \/ state.selectedStock # Null
    /\ \E resp \in ExtractResponses :
          /\ ~ExtractThrows(resp)
          /\ LET analysis == ExtractResult(resp, ops[o].sources)
             IN  /\ state' = IF crashed THEN state
                             ELSE [state EXCEPT
                                     !.loading = FALSE,
                                     !.analysis = Some(analysis),
                                     !.selectedStock =
                                        Some(ReconciledStock(state.selectedStock[1],
                                                             analysis, ops[o].price))]
                 /\ last' = Event([ev |-> "analyzeOk", id |-> o, op |-> ops[o],
                                   resp |-> resp, prev |-> state.selectedStock])
    /\ ops' = [ops EXCEPT ![o] = DoneOp]
    /\ UNCHANGED <<apiKey, crashed, csvText, parsed, parsePc, searchQuery, searchResults>>

\* Step 2 returns and the success updater runs on selectedStock = null:
\* prev.selectedStock!.sector throws inside the updater, React rethrows it
\* while rendering, no error boundary catches it and the root is unmounted.
AnalyzeCrash(o) ==
    /\ ops[o].pc = "extract"
    /\ ~crashed
    /\ state.selectedStock = Null
    /\ \E resp \in ExtractResponses : ~ExtractThrows(resp)
    /\ crashed' = TRUE
    /\ last' = [ev |-> "analyzeCrash", id |-> o]
    /\ ops' = [ops EXCEPT ![o] = DoneOp]
    /\ UNCHANGED <<apiKey, state, csvText, parsed, parsePc, searchQuery, searchResults>>

\* handleBack putting the whole state back to its initial value.
handleBackResets ==
    /\ UserCanAct
    /\ state' = [InitialState EXCEPT !.loading = state.loading]
    /\ last' = [ev |-> "handleBack"]
    /\ UNCHANGED <<apiKey, ops, crashed, csvText, parsed, parsePc, searchQuery, searchResults>>

\* The navbar logo (always rendered) and AnalysisView's onBack.
handleBack ==
    /\ UserCanAct
    /\ state' = [state EXCEPT !.view = "dashboard", !.selectedStock = Null,
                              !.analysis = Null]
    /\ last' = [ev |-> "handleBack"]
    /\ UNCHANGED <<apiKey, ops, crashed, csvText, parsed, parsePc, searchQuery, searchResults>>

Next ==
    \/ loadMarketData
    \/ \E o \in OpIds : SnapshotReturn(o)
    \/ handleScanForValue
    \/ \E o \in OpIds : ScanSectorReturn(o)
    \/ \E o \in OpIds : ScanCommit(o)
    \/ handleStockClick
    \/ handleSearchSelect
    \/ \E o \in OpIds : GatherReturn(o)
    \/ \E o \in OpIds : AnalyzeFail(o)
    \/ \E o \in OpIds : AnalyzeCommit(o)
    \/ \E o \in OpIds : AnalyzeCrash(o)
    \/ handleBack

Spec == Init /\ [][Next]_vars

\* The same program, observed over behaviours one invocation longer.
SpecLong == InitLong /\ [][Next]_vars

---------------------------------------------------------------------------
(* App: the search box.  Typing sets searchQuery; the effect that depends  *)
(* on searchQuery then recomputes the suggestions before the next event.   *)

\* geminiService.ts: the ticker universe, in its source order.
NIFTY_200_TICKERS ==
    << <<"R", "E", "L", "I", "A", "N", "C", "E">>,
       <<"T", "C", "S">>,
       <<"H", "D", "F", "C", "B", "A", "N", "K">>,
       <<"I", "N", "F", "Y">>,
       <<"I", "C", "I", "C", "I", "B", "A", "N", "K">>,
       <<"H", "I", "N", "D", "U", "N", "I", "L", "V", "R">>,
       <<"I", "T", "C">>,
       <<"S", "B", "I", "N">>,
       <<"B", "H", "A", "R", "T", "I", "A", "R", "T", "L">>,
       <<"L", "I", "C", "I">>,
       <<"L", "T">>,
       <<"B", "A", "J", "F", "I", "N", "A", "N", "C", "E">>,
       <<"H", "C", "L", "T", "E", "C", "H">>,
       <<"K", "O", "T", "A", "K", "B", "A", "N", "K">>,
       <<"A", "X", "I", "S", "B", "A", "N", "K">>,
       <<"A", "S", "I", "A", "N", "P", "A", "I", "N", "T">>,
       <<"T", "I", "T", "A", "N">>,
       <<"M", "A", "R", "U", "T", "I">>,
       <<"S", "U", "N", "P", "H", "A", "R", "M", "A">>,
       <<"U", "L", "T", "R", "A", "C", "E", "M", "C", "O">>,
       <<"N", "T", "P", "C">>,
       <<"T", "A", "T", "A", "M", "O", "T", "O", "R", "S">>,
       <<"A", "D", "A", "N", "I", "E", "N", "T">>,
       <<"O", "N", "G", "C">>,
       <<"P", "O", "W", "E", "R", "G", "R", "I", "D">>,
       <<"T", "A", "T", "A", "S", "T", "E", "E", "L">>,
       <<"M", "&", "M">>,
       <<"A", "D", "A", "N", "I", "P", "O", "R", "T", "S">>,
       <<"C", "O", "A", "L", "I", "N", "D", "I", "A">>,
       <<"B", "A", "J", "A", "J", "F", "I", "N", "S", "V">>,
       <<"S", "I", "E", "M", "E", "N", "S">>,
       <<"D", "M", "A", "R", "T">>,
       <<"N", "E", "S", "T", "L", "E", "I", "N", "D">>,
       <<"J", "S", "W", "S", "T", "E", "E", "L">>,
       <<"A", "D", "A", "N", "I", "G", "R", "E", "E", "N">>,
       <<"G", "R", "A", "S", "I", "M">>,
       <<"P", "I", "D", "I", "L", "I", "T", "I", "N", "D">>,
       <<"Z", "O", "M", "A", "T", "O">>,
       <<"L", "T", "I", "M">>,
       <<"D", "L", "F">>,
       <<"T", "R", "E", "N", "T">>,
       <<"V", "B", "L">>,
       <<"H", "A", "L">>,
       <<"I", "O", "C">>,
       <<"B", "E", "L">>,
       <<"H", "I", "N", "D", "A", "L", "C", "O">>,
       <<"E", "I", "C", "H", "E", "R", "M", "O", "T">>,
       <<"I", "N", "D", "U", "S", "I", "N", "D", "B", "K">>,
       <<"G", "O", "D", "R", "E", "J", "C", "P">>,
       <<"C", "I", "P", "L", "A">>,
       <<"B", "P", "C", "L">>,
       <<"B", "R", "I", "T", "A", "N", "N", "I", "A">>,
       <<"T", "E", "C", "H", "M">>,
       <<"W", "I", "P", "R", "O">>,
       <<"A", "D", "A", "N", "I", "P", "O", "W", "E", "R">>,
       <<"T", "A", "T", "A", "C", "O", "N", "S", "U", "M">>,
       <<"D", "R", "R", "E", "D", "D", "Y">>,
       <<"A", "B", "B">>,
       <<"B", "A", "N", "K", "B", "A", "R", "O", "D", "A">>,
       <<"A", "M", "B", "U", "J", "A", "C", "E", "M">>,
       <<"V", "E", "D", "L">>,
       <<"I", "N", "D", "I", "G", "O">>,
       <<"T", "V", "S", "M", "O", "T", "O", "R">>,
       <<"G", "A", "I", "L">>,
       <<"D", "I", "V", "I", "S", "L", "A", "B">>,
       <<"H", "A", "V", "E", "L", "L", "S">>,
       <<"P", "N", "B">>,
       <<"A", "P", "O", "L", "L", "O", "H", "O", "S", "P">>,
       <<"C", "H", "O", "L", "A", "F", "I", "N">>,
       <<"S", "H", "R", "E", "E", "C", "E", "M">>,
       <<"C", "A", "N", "B", "K">>,
       <<"D", "A", "B", "U", "R">>,
       <<"J", "I", "O", "F", "I", "N">>,
       <<"B", "A", "J", "A", "J", "-", "A", "U", "T", "O">>,
       <<"B", "O", "S", "C", "H", "L", "T", "D">>,
       <<"T", "A", "T", "A", "C", "H", "E", "M">>,
       <<"S", "R", "F">>,
       <<"M", "U", "T", "H", "O", "O", "T", "F", "I", "N">>,
       <<"B", "E", "R", "G", "E", "P", "A", "I", "N", "T">>,
       <<"M", "A", "R", "I", "C", "O">>,
       <<"N", "A", "U", "K", "R", "I">>,
       <<"P", "I", "I", "N", "D">>,
       <<"U", "P", "L">>,
       <<"S", "B", "I", "C", "A", "R", "D">>,
       <<"I", "C", "I", "C", "I", "G", "I">>,
       <<"I", "C", "I", "C", "I", "P", "R", "U", "L", "I">>,
       <<"T", "I", "I", "N", "D", "I", "A">>,
       <<"H", "E", "R", "O", "M", "O", "T", "O", "C", "O">>,
       <<"A", "S", "H", "O", "K", "L", "E", "Y">>,
       <<"A", "S", "T", "R", "A", "L">>,
       <<"A", "L", "K", "E", "M">>,
       <<"P", "E", "R", "S", "I", "S", "T", "E", "N", "T">>,
       <<"P", "O", "L", "Y", "C", "A", "B">>,
       <<"M", "R", "F">>,
       <<"I", "R", "C", "T", "C">>,
       <<"L", "T", "T", "S">>,
       <<"P", "A", "G", "E", "I", "N", "D">>,
       <<"A", "C", "C">>,
       <<"C", "O", "L", "P", "A", "L">>,
       <<"P", "E", "T", "R", "O", "N", "E", "T">> >>

UpperCase == <<"A","B","C","D","E","F","G","H","I","J","K","L","M",
               "N","O","P","Q","R","S","T","U","V","W","X","Y","Z">>

LowerCase == <<"a","b","c","d","e","f","g","h","i","j","k","l","m",
               "n","o","p","q","r","s","t","u","v","w","x","y","z">>

LowerChar(c) ==
    IF \E i \in 1..Len(UpperCase) : UpperCase[i] = c
    THEN LowerCase[CHOOSE i \in 1..Len(UpperCase) : UpperCase[i] = c]
    ELSE c

ToLowerCaseIdentity(s) == s

\* String.prototype.toLowerCase.
ToLowerCase(s) == [i \in 1..Len(s) |-> LowerChar(s[i])]

\* String.prototype.includes for a string needle.
IncludesString(s, sub) ==
    \E i \in 0..(Len(s) - Len(sub)) : SubSeq(s, i + 1, i + Len(sub)) = sub

MaxSuggestions == 5

TickerMatches(ticker, query) ==
    IncludesString(ToLowerCase(ticker), ToLowerCase(query))

\* The effect on searchQuery: filter in order, keep the first five.
Suggestions(query) ==
    IF Len(query) > 1
    THEN Take(SelectSeq(NIFTY_200_TICKERS, LAMBDA t : TickerMatches(t, query)),
              MaxSuggestions)
    ELSE <<>>

MaxQueryLen == 2

\* The characters typed: letters of both cases and the two signs that occur
\* in tickers.
QueryChars == {"a", "A", "n", "t", "T", "c", "m", "M", "&", "-"}

\* The values the input can take after one key press on the text it holds:
\* one character appended, or the last one deleted.
Edits(text) ==
    {text \o <<c>> : c \in IF Len(text) < MaxQueryLen THEN QueryChars ELSE {}}
    \cup (IF text = <<>> THEN {} ELSE {SubSeq(text, 1, Len(text) - 1)})

SearchInit ==
    /\ searchQuery = <<>>
    /\ searchResults = Suggestions(<<>>)
    /\ apiKey = TRUE
    /\ state = InitialState
    /\ ops = NoOps
    /\ last = NoLast
    /\ crashed = FALSE
    /\ csvText = <<>>
    /\ parsed = <<>>
    /\ parsePc = "ready"

\* The input's onChange followed by the effect.
setSearchQuery ==
    /\ \E query \in Edits(searchQuery) :
          /\ searchQuery' = query
          /\ searchResults' = Suggestions(query)
    /\ UNCHANGED <<apiKey, state, ops, last, crashed, csvText, parsed, parsePc>>

SearchNext == setSearchQuery

SpecSearch == SearchInit /\ [][SearchNext]_vars

---------------------------------------------------------------------------
(* Claims about the handlers of App and about analyzeStockWithGemini,      *)
(* checked under Spec.  last names the step that produced the state.       *)

\* The concatenation of a sequence of sequences.
RECURSIVE Flatten(_)
Flatten(seqs) == IF seqs = <<>> THEN <<>> ELSE Head(seqs) \o Flatten(Tail(seqs))

\* C1: once an analysis whose extract step failed has run its catch,
\* loading is false, the view is the dashboard and analysis is null.
C1_ExtractFailureLeavesNoAnalysis ==
    (last.ev = "analyzeFail" /\ last.phase = "extract") =>
        /\ ~state.loading
        /\ state.view = "dashboard"
        /\ state.analysis = Null

\* C2: at most one of loadMarketData, handleScanForValue and analyzeStock is
\* in flight.
C2_AtMostOneInFlight == Cardinality(InFlight) <= 1

\* (a missing score counts as 0)
ScoreKey(x) == IF x.score.nan THEN 0 ELSE x.score.n

\* How many entries of all come before entry i when all is sorted by score
\* descending and entries of equal score keep their order.
RankOf(all, i) ==
    Cardinality({ j \in 1..Len(all) :
                    \/ ScoreKey(all[j]) > ScoreKey(all[i])
                    \/ ScoreKey(all[j]) = ScoreKey(all[i]) /\ j < i })

\* C3: the list committed by a scan is the concatenation of the five sector
\* results in sector order, sorted by score descending with entries of equal
\* score in their append order, cut to its first 20 entries.
C3_ScanCommitsSortedTop20 ==
    last.ev = "scanCommit" =>
        /\ Len(last.returned) = 5
        /\ Len(state.stocks) <= 20
        /\ Len(state.stocks) <= Len(Flatten(last.returned))
        /\ Len(state.stocks) = 20 \/ Len(state.stocks) = Len(Flatten(last.returned))
        /\ \A i \in 1..Len(Flatten(last.returned)) :
              RankOf(Flatten(last.returned), i) < 20 =>
                  state.stocks[RankOf(Flatten(last.returned), i) + 1]
                      = Flatten(last.returned)[i]
        /\ \A r \in 1..(Len(state.stocks) - 1) :
              ScoreKey(state.stocks[r]) >= ScoreKey(state.stocks[r + 1])

\* A scan committed 20 of 25 candidates, among them two of equal score
\* from different sectors (symbols with different tags), the later sector
\* behind the earlier one, and one with no numeric score.
C3_Witness ==
    /\ last.ev = "scanCommit"
    /\ Len(Flatten(last.returned)) = 25
    /\ Len(state.stocks) = 20
    /\ \E r \in 1..19 :
          /\ ScoreKey(state.stocks[r]) = ScoreKey(state.stocks[r + 1])
          /\ state.stocks[r].symbol[1] = SectorTags[1]
          /\ state.stocks[r + 1].symbol[1] = SectorTags[2]
    /\ \E r \in 1..20 : state.stocks[r].score.nan

\* C4: a scan sets progress to 0, 20, 40, 60, 80, one value before each
\* sector's query, and its final commit sets progress to 100.
C4_ProgressSequence ==
    /\ last.ev = "scanStart" =>
          /\ state.progress = 0
          /\ ops[last.id].log = <<0>>
          /\ ops[last.id].returned = <<>>
    /\ last.ev = "scanSector" =>
          /\ state.progress = 20 * ops[last.id].i
          /\ ops[last.id].log = [k \in 1..(ops[last.id].i + 1) |-> 20 * (k - 1)]
          /\ Len(ops[last.id].returned) = ops[last.id].i
    /\ last.ev = "scanCommit" =>
          /\ last.log = <<0, 20, 40, 60, 80>>
          /\ state.progress = 100

\* A scan with a key went through the five sectors and committed.
C4_Witness ==
    /\ last.ev = "scanCommit"
    /\ apiKey
    /\ last.log = <<0, 20, 40, 60, 80>>
    /\ state.progress = 100
    /\ state.stocks # <<>>

\* The object has every field of StockAnalysis and its enumerated fields
\* hold values of their enumerations.
ValidAnalysis(a) ==
    /\ a.companyName # Null
    /\ a.currentPrice # Null
    /\ a.rest
    /\ a.recommendation # Null
    /\ a.recommendation[1] \in {"BUY", "HOLD", "SELL"}
    /\ a.valuationMetrics # Null
    /\ \A k \in 1..Len(a.valuationMetrics[1]) :
          a.valuationMetrics[1][k] \in
             {"Discounted Cash Flow", "Relative Valuation", "Graham Number"}
    /\ a.sentimentLabel # Null
    /\ a.sentimentLabel[1] \in {"Positive", "Neutral", "Negative"}
    /\ a.sources # Null

\* C5: the analysis in the state is never partially populated and never
\* holds an enumerated field outside its value set.
C5_OnlyValidAnalysisCommitted ==
    state.analysis # Null => ValidAnalysis(state.analysis[1])

\* The extract answer is a JSON text holding an object.
ExtractAnswered(resp) ==
    /\ resp.ok
    /\ resp.text # Null
    /\ resp.text[1].json
    /\ resp.text[1].value # Null

\* C6: after a failed gather step the analysis is still in flight, at its
\* extract step, with the placeholder context and no sources; it then
\* succeeds exactly when the extract step answers with an object, and the
\* committed analysis is that object with an empty source list.
C6_GatherFailureIsNotFatal ==
    /\ last.ev = "gatherFail" =>
          /\ ops[last.id].pc = "extract"
          /\ ops[last.id].searchContext = "Search unavailable. Use internal knowledge base."
          /\ ops[last.id].sources = <<>>
    /\ (last.ev = "analyzeOk" /\ last.op.searchContext = SearchUnavailable) =>
          /\ ExtractAnswered(last.resp)
          /\ state.analysis =
                Some([last.resp.text[1].value[1] EXCEPT !.sources = Some(<<>>)])
          /\ ~state.loading
    /\ (last.ev = "analyzeFail" /\ last.phase = "extract"
          /\ last.op.searchContext = SearchUnavailable) =>
          /\ ~ExtractAnswered(last.resp)
          /\ ~state.loading
          /\ state.view = "dashboard"

\* An analysis whose gather step failed committed its analysis.
C6_Witness ==
    /\ last.ev = "analyzeOk"
    /\ last.op.searchContext = SearchUnavailable
    /\ last.op.sources = <<>>
    /\ state.analysis # Null
    /\ state.view = "detail"

\* The extracted price, 0 when the object has none.
ExtractedPrice(resp) ==
    IF resp.text[1].value[1].currentPrice = Null THEN Int2Num(0)
    ELSE resp.text[1].value[1].currentPrice[1]

\* C7: the price committed by a successful analysis is the extracted price
\* when that is nonzero and the known price passed to analyzeStock otherwise.
C7_CommittedPrice ==
    last.ev = "analyzeOk" =>
        state.selectedStock[1].price =
            IF ExtractedPrice(last.resp) # Int2Num(0)
            THEN ExtractedPrice(last.resp)
            ELSE last.op.price

\* C14: without a key no external call is outstanding, a snapshot query
\* and every sector scan query return the empty list, and an analysis fails
\* with the missing-key error before its gather and extract calls.
C14_NoCredentialNoCall ==
    ~apiKey =>
        /\ \A o \in InFlight :
              /\ ~ops[o].ext
              /\ ops[o].pc \notin {"gather", "extract"}
        /\ last.ev = "snapshotDone" =>
              /\ last.stocks = <<>>
              /\ state.stocks = <<>>
        /\ last.ev = "scanCommit" =>
              /\ \A k \in 1..Len(last.returned) : last.returned[k] = <<>>
              /\ state.stocks = <<>>
        /\ last.ev \notin {"handleStockClick", "handleSearchSelect",
                           "gatherOk", "gatherFail", "analyzeOk", "analyzeCrash"}
        /\ last.ev = "analyzeFail" =>
              /\ last.phase = "credential"
              /\ ~state.loading
              /\ state.view = "dashboard"

\* Without a key: a load and a scan returned nothing, then an analysis
\* failed on the missing key.
C14_Witness ==
    /\ ~apiKey
    /\ last.ev = "analyzeFail"
    /\ last.phase = "credential"
    /\ state.scanMode
    /\ state.progress = 100
    /\ state.stocks = <<>>
    /\ state.selectedStock # Null
    /\ InFlight = {}

\* The scans whose sector query is outstanding at the service.
OutstandingSectorQueries ==
    { o \in InFlight : ops[o].pc = "scanMarketSector" /\ ops[o].ext }

\* C15: at most one sector scan query is outstanding, and a scan awaiting
\* the query of sector i+1 has got back the answers of sectors 1..i.
C15_OneSectorQueryAtATime ==
    /\ Cardinality(OutstandingSectorQueries) <= 1
    /\ \A o \in OutstandingSectorQueries : Len(ops[o].returned) = ops[o].i

\* C16: handleBack sets view to the dashboard, selectedStock and analysis
\* to null, and leaves stocks, loading, scanMode, progress and scanStatus
\* as they are.
C16_BackFrame ==
    [][last'.ev = "handleBack" =>
          /\ state'.view = "dashboard"
          /\ state'.selectedStock = Null
          /\ state'.analysis = Null
          /\ state'.stocks = state.stocks
          /\ state'.loading = state.loading
          /\ state'.scanMode = state.scanMode
          /\ state'.progress = state.progress
          /\ state'.scanStatus = state.scanStatus
          /\ ops' = ops]_vars

\* Back was taken while an analysis of a listed stock was in flight.
C16_Witness ==
    /\ last.ev = "handleBack"
    /\ state.loading
    /\ state.stocks # <<>>
    /\ state.view = "dashboard"
    /\ state.selectedStock = Null
    /\ \E o \in InFlight : ops[o].pc = "extract"

\* C17: when loadMarketData has finished, the view is the dashboard,
\* loading and scanMode are false and stocks is the list the snapshot query
\* returned.
C17_SnapshotCommit ==
    last.ev = "snapshotDone" =>
        /\ state.view = "dashboard"
        /\ ~state.loading
        /\ ~state.scanMode
        /\ state.stocks = last.stocks

\* C18: after an analysis has failed, the state does not hold the stock
\* that analysis selected.
C18_FailureLeavesNoPartialState ==
    (last.ev = "analyzeFail" /\ last.phase = "extract") =>
        \/ state.selectedStock = Null
        \/ state.selectedStock[1].symbol # last.op.symbol

\* C19: the symbols of stocks are pairwise distinct.
C19_DistinctSymbols ==
    \A i, j \in 1..Len(state.stocks) :
        i # j => state.stocks[i].symbol # state.stocks[j].symbol

\* The step that resumes invocation o after the query it awaits.
ReturnOf(o) ==
    \/ SnapshotReturn(o)
    \/ ScanSectorReturn(o)
    \/ ScanCommit(o)
    \/ GatherReturn(o)
    \/ AnalyzeFail(o)
    \/ AnalyzeCommit(o)
    \/ AnalyzeCrash(o)

\* C20: every started operation can always take its next step when its
\* query returns (none is ever stuck short of its end), and when no
\* operation is in flight loading is false.
C20_OperationsFinish ==
    /\ \A o \in InFlight : ENABLED ReturnOf(o)
    /\ InFlight = {} => ~state.loading

\* The sources the grounding metadata of the gather answer lists, read off
\* the search context the operation kept: none when the gather call failed
\* or answered without metadata; otherwise the chunks with a web entry, in
\* their order, an empty title shown as "Source".
GroundingSources(searchContext) ==
    IF searchContext = "TCS trades at 9"
    THEN << [title |-> "News", uri |-> "http://n"],
            [title |-> "Source", uri |-> "http://m"] >>
    ELSE <<>>

\* C22: when an analysis succeeds, the sources of the committed analysis
\* are exactly the sources of the gather phase's grounding metadata, in
\* order, and are empty when the gather phase failed or had no metadata;
\* the extract answer has no say in them.
C22_SourcesComeFromGather ==
    last.ev = "analyzeOk" =>
       /\ state.analysis # Null
       /\ state.analysis[1].sources = Some(GroundingSources(last.op.searchContext))

\* An analysis committed after a gather answer with grounding chunks and an
\* extract answer that has a sources field of its own.
C22_Witness ==
    /\ last.ev = "analyzeOk"
    /\ last.op.searchContext = "TCS trades at 9"
    /\ last.resp.text[1].value[1].sources # Null
    /\ state.analysis[1].sources # last.resp.text[1].value[1].sources

\* C23: when an analysis succeeds, the committed selected stock has sector
\* "Analysed" if the selected stock's sector was "Unknown" and the same
\* sector otherwise; its symbol, changePercent and marketCap are those of
\* the selected stock before the commit.
C23_SectorMarkedAnalysed ==
    last.ev = "analyzeOk" =>
       /\ state.selectedStock # Null
       /\ state.selectedStock[1].sector =
             (IF last.prev[1].sector = <<"U", "n", "k", "n", "o", "w", "n">>
              THEN <<"A", "n", "a", "l", "y", "s", "e", "d">>
              ELSE last.prev[1].sector)
       /\ state.selectedStock[1].symbol = last.prev[1].symbol
       /\ state.selectedStock[1].changePercent = last.prev[1].changePercent
       /\ state.selectedStock[1].marketCap = last.prev[1].marketCap

\* A success commit on a row of the table, whose sector is kept.
C23_Witness ==
    /\ last.ev = "analyzeOk"
    /\ last.prev[1].sector # <<"U", "n", "k", "n", "o", "w", "n">>
    /\ state.selectedStock[1].sector = last.prev[1].sector

\* A success commit on the placeholder of a search, marked "Analysed".
C23_WitnessUnknown ==
    /\ last.ev = "analyzeOk"
    /\ last.prev[1].sector = <<"U", "n", "k", "n", "o", "w", "n">>
    /\ state.selectedStock[1].sector = <<"A", "n", "a", "l", "y", "s", "e", "d">>

\* A scan is between its reset and its final commit.
ScanRunning == \E o \in 1..MaxOps : ops[o].pc = "scanMarketSector"

\* C24: from the reset of a scan until its final commit, no step makes
\* progress smaller, whatever other handlers run in the meantime.
C24_ProgressMonotonicDuringScan ==
    [][ScanRunning => state'.progress >= state.progress]_vars

\* C25: between a scan's reset and its final commit, the scan's own
\* progress and status updates do not write stocks (stocks cleared by the
\* reset stay empty under them, whatever the scan has gathered); the final
\* commit sets stocks to picks the scan got back, progress to 100 and
\* loading to false in one step.
C25_ScanPublishesOnlyAtCommit ==
    [][/\ last'.ev = "scanSector" =>
             /\ state'.stocks = state.stocks
             /\ state'.loading = state.loading
       /\ last'.ev = "scanCommit" =>
             /\ state'.progress = 100
             /\ ~state'.loading
             /\ Len(state'.stocks) =
                   (IF Len(Flatten(last'.returned)) < TopN
                    THEN Len(Flatten(last'.returned)) ELSE TopN)
             /\ \A k \in 1..Len(state'.stocks) :
                   \E j \in 1..Len(Flatten(last'.returned)) :
                      state'.stocks[k] = Flatten(last'.returned)[j]]_vars

\* A scan has gathered picks from earlier sectors, has just updated its
\* progress, and stocks is still empty.
C25_Witness ==
    /\ last.ev = "scanSector"
    /\ ops[last.id].allPicks # <<>>
    /\ state.stocks = <<>>
    /\ state.loading

\* C26: a sector query that fails adds no pick to the scan and does not
\* end it: the scan goes on to the next sector, loading and scanMode stay
\* as they are, and the final commit (after all five sectors) sets progress
\* to 100 and loading to false.
C26_FailedSectorDoesNotAbort ==
    [][/\ (last'.ev = "scanSector" /\ ~last'.ok) =>
             /\ ops'[last'.id].allPicks = ops[last'.id].allPicks
             /\ ops'[last'.id].returned = Append(ops[last'.id].returned, <<>>)
             /\ ops'[last'.id].pc = "scanMarketSector"
             /\ ops'[last'.id].i = ops[last'.id].i + 1
             /\ state'.loading = state.loading
             /\ state'.scanMode = state.scanMode
       /\ last'.ev = "scanCommit" =>
             /\ Len(last'.returned) = Len(sectors)
             /\ state'.progress = 100
             /\ ~state'.loading]_vars

\* A scan with a key whose first sector query failed and whose third
\* answered has committed.
C26_Witness ==
    /\ last.ev = "scanCommit"
    /\ apiKey
    /\ last.returned[1] = <<>>
    /\ last.returned[3] # <<>>
    /\ state.stocks # <<>>
    /\ state.progress = 100
    /\ ~state.loading

\* C27: whenever analyzeStock's success updater has run, it ran on a
\* selectedStock that is not null.
C27_SelectedAtSuccessCommit ==
    last.ev \in {"analyzeOk", "analyzeCrash"} => state.selectedStock # Null

\* C28: whenever analysis is not null, selectedStock is not null and the
\* analysis is the result of the analysis started for selectedStock's
\* symbol; stated at the step that commits the analysis, whose invocation
\* last.op names.
C28_AnalysisMatchesSelection ==
    /\ state.analysis # Null => state.selectedStock # Null
    /\ last.ev = "analyzeOk" =>
          /\ state.analysis # Null
          /\ state.selectedStock[1].symbol = last.op.symbol

\* C29: if a load, a scan or an analysis is in flight then loading is true.
C29_LoadingWhileInFlight == InFlight # {} => state.loading

\* C30: after a scan's final commit scanMode is true, and after a
\* snapshot's commit scanMode is false.
C30_ScanModeMatchesResults ==
    /\ last.ev = "scanCommit" => state.scanMode
    /\ last.ev = "snapshotDone" => ~state.scanMode

---------------------------------------------------------------------------
(* Claims about parseStockCSV, checked under SpecParse.  The fields of a   *)
(* line and what makes one numeric are stated here on the text itself.     *)

TextLinesOf(text) == Split(text, "\n")

FieldsOf(line) == Split(line, ",")

\* r is f with its quote characters removed and the white space around the
\* rest cut off.
IsCleaned(f, r) ==
    LET q == SelectSeq(f, LAMBDA c : c \notin {"'", "\""})
    IN  /\ r = <<>> \/ (r[1] \notin WhiteSpace /\ r[Len(r)] \notin WhiteSpace)
        /\ \E a \in 0..Len(q) :
              /\ a + Len(r) <= Len(q)
              /\ SubSeq(q, a + 1, a + Len(r)) = r
              /\ \A i \in (1..a) \cup ((a + Len(r) + 1)..Len(q)) : q[i] \in WhiteSpace

CleanedText(f) ==
    LET q == SelectSeq(f, LAMBDA c : c \notin {"'", "\""})
    IN  CHOOSE r \in { SubSeq(q, a, b) : a \in 1..(Len(q) + 1), b \in 0..Len(q) } :
            IsCleaned(f, r)

Unsigned(t) == IF t # <<>> /\ t[1] \in {"+", "-"} THEN Tail(t) ELSE t

\* The cleaned field starts like a decimal number.
NumericField(f) ==
    LET u == Unsigned(CleanedText(f))
    IN  /\ u # <<>>
        /\ u[1] \in Digits \/ (u[1] = "." /\ Len(u) >= 2 /\ u[2] \in Digits)

\* The cleaned field starts like an integer.
IntegerField(f) ==
    LET u == Unsigned(CleanedText(f))
    IN  u # <<>> /\ u[1] \in Digits

WellFormedLine(line) ==
    Len(FieldsOf(line)) >= 6 /\ NumericField(FieldsOf(line)[4])

WellFormedLines == SelectSeq(TextLinesOf(csvText), WellFormedLine)

\* C8: every line with exactly 7 fields, a numeric price and a non-numeric
\* (non-empty) 7th field yields a candidate with score 0 whose reason is the
\* cleaned text of the 7th field.
C8_LegacyReasonScoreZero ==
    parsePc = "done" =>
        \A k \in 1..Len(WellFormedLines) :
            LET f == FieldsOf(WellFormedLines[k])
            IN  (Len(f) = 7 /\ CleanedText(f[7]) # <<>> /\ ~IntegerField(f[7])) =>
                    /\ k <= Len(parsed)
                    /\ parsed[k].score = Int2Num(0)
                    /\ parsed[k].reason = Some(CleanedText(f[7]))

\* C11: every accepted line with exactly 6 fields yields a candidate with
\* score 0 and no reason.
C11_NoScoreField ==
    parsePc = "done" =>
        \A k \in 1..Len(WellFormedLines) :
            Len(FieldsOf(WellFormedLines[k])) = 6 =>
                /\ k <= Len(parsed)
                /\ parsed[k].score = [nan |-> FALSE, n |-> 0, d |-> 0]
                /\ parsed[k].reason = Null

\* The line "X,Y 'Co',Z,10.5,1.2,1T" alone was parsed.
C11_Witness ==
    /\ parsePc = "done"
    /\ Len(WellFormedLines) = 1
    /\ Len(FieldsOf(WellFormedLines[1])) = 6
    /\ FieldsOf(WellFormedLines[1])[4] = <<"1", "0", ".", "5">>
    /\ Len(parsed) = 1
    /\ parsed[1].score.n = 0
    /\ ~parsed[1].score.nan
    /\ parsed[1].reason = Null

\* The cleaned field is an integer literal: an optional sign and digits only.
IsIntegerText(t) ==
    /\ Unsigned(t) # <<>>
    /\ \A i \in 1..Len(Unsigned(t)) : Unsigned(t)[i] \in Digits

\* The value of an integer literal.
IntegerTextValue(t) ==
    (IF t[1] = "-" THEN -1 ELSE 1) * DigitsVal(Unsigned(t), 10, 0)

\* C12: every accepted line with 8 or more fields yields a candidate whose
\* reason is the (cleaned) 8th field, and whose score is the 7th field when
\* that is an integer.
C12_ReasonIsEighthField ==
    parsePc = "done" =>
        \A k \in 1..Len(WellFormedLines) :
            Len(FieldsOf(WellFormedLines[k])) >= 8 =>
                /\ k <= Len(parsed)
                /\ parsed[k].reason = Some(CleanedText(FieldsOf(WellFormedLines[k])[8]))
                /\ IsIntegerText(CleanedText(FieldsOf(WellFormedLines[k])[7])) =>
                      parsed[k].score =
                         [nan |-> FALSE,
                          n |-> IntegerTextValue(CleanedText(FieldsOf(WellFormedLines[k])[7])),
                          d |-> 0]

\* C9: every line with at least 6 fields and a numeric 4th field yields
\* exactly one candidate, whose symbol, name, sector, price, changePercent
\* and marketCap are fields 1 to 6 in that order, the text fields with the
\* quote characters and the surrounding white space removed.
C9_PositionalFields ==
    parsePc = "done" =>
        /\ Len(parsed) = Len(WellFormedLines)
        /\ \A k \in 1..Len(WellFormedLines) :
            LET f == FieldsOf(WellFormedLines[k])
            IN  /\ k <= Len(parsed)
                /\ IsCleaned(f[1], parsed[k].symbol)
                /\ IsCleaned(f[2], parsed[k].name)
                /\ IsCleaned(f[3], parsed[k].sector)
                /\ parsed[k].price = ParseFloat(CleanedText(f[4]))
                /\ NumericField(f[5]) =>
                       parsed[k].changePercent = ParseFloat(CleanedText(f[5]))
                /\ IsCleaned(f[6], parsed[k].marketCap)

\* A quoted, padded symbol and a quoted name were parsed into a candidate.
C9_Witness ==
    /\ parsePc = "done"
    /\ Len(parsed) = 1
    /\ Len(WellFormedLines) = 1
    /\ FieldsOf(WellFormedLines[1])[1] = <<" ", "\"", "X", "\"", " ">>
    /\ parsed[1].symbol = <<"X">>
    /\ parsed[1].name = <<"Y", " ", "C", "o">>
    /\ parsed[1].sector = <<"Z">>
    /\ parsed[1].marketCap = <<"1", "T">>

\* C10: a line with fewer than 6 fields or a non-numeric price adds nothing,
\* and the output is exactly the candidates of the well-formed lines, in
\* input line order.
C10_MalformedLinesSkipped ==
    parsePc = "done" =>
        /\ \A k \in 1..Len(TextLinesOf(csvText)) :
               ~WellFormedLine(TextLinesOf(csvText)[k]) =>
                   parseStockCSV(TextLinesOf(csvText)[k]) = <<>>
        /\ parsed = Flatten([k \in 1..Len(WellFormedLines) |->
                                parseStockCSV(WellFormedLines[k])])
        /\ Len(parsed) = Len(WellFormedLines)

\* A malformed line between two well-formed ones, and both were parsed.
C10_Witness ==
    /\ parsePc = "done"
    /\ Len(TextLinesOf(csvText)) = 3
    /\ WellFormedLine(TextLinesOf(csvText)[1])
    /\ ~WellFormedLine(TextLinesOf(csvText)[2])
    /\ WellFormedLine(TextLinesOf(csvText)[3])
    /\ Len(parsed) = 2
    /\ parsed[1].symbol = <<"A">>
    /\ parsed[2].symbol = <<"B">>

---------------------------------------------------------------------------
(* Claims about the search box, checked under SpecSearch.  Containment is  *)
(* stated here letter by letter, without lowering either string.           *)

SameLetter(a, b) ==
    \/ a = b
    \/ \E i \in 1..Len(UpperCase) : {a, b} = {UpperCase[i], LowerCase[i]}

ContainsIgnoringCase(ticker, query) ==
    \E off \in 0..(Len(ticker) - Len(query)) :
       \A k \in 1..Len(query) : SameLetter(ticker[off + k], query[k])

MatchingPositions(query) ==
    {i \in 1..Len(NIFTY_200_TICKERS) :
        ContainsIgnoringCase(NIFTY_200_TICKERS[i], query)}

\* The position in the universe of the k-th match of the query.
KthMatch(query, k) ==
    CHOOSE i \in MatchingPositions(query) :
       Cardinality({j \in MatchingPositions(query) : j < i}) = k - 1

\* C21: the suggestions are the first (at most five) tickers of the
\* universe, in universe order, that contain the query as a substring
\* whatever the case of the letters; a query shorter than two characters
\* has no suggestions.
C21_SuggestionsAreFirstFiveMatches ==
    IF Len(searchQuery) < 2
    THEN searchResults = <<>>
    ELSE /\ Len(searchResults) =
               (IF Cardinality(MatchingPositions(searchQuery)) < 5
                THEN Cardinality(MatchingPositions(searchQuery)) ELSE 5)
         /\ \A k \in 1..Len(searchResults) :
               searchResults[k] = NIFTY_200_TICKERS[KthMatch(searchQuery, k)]

\* A query with a lower-case letter and more than five matches.
C21_Witness ==
    /\ Len(searchQuery) > 1
    /\ \E k \in 1..Len(searchQuery) :
          \E i \in 1..Len(LowerCase) : searchQuery[k] = LowerCase[i]
    /\ Cardinality(MatchingPositions(searchQuery)) > 5
    /\ Len(searchResults) = 5

=============================================================================
